---- MODULE Spec2Model ----
(***************************************************************************)
(* A model of the ReliableConnection class of lib/index.js (the revision   *)
(* with reconnect/notifyStatus, lines 1-234), run on a JavaScript event    *)
(* loop: timers, promise reactions and the caller's method calls.          *)
(* The file holds a second revision of the class (lines 236-393) that      *)
(* replaces module.exports; its start, stop and disconnect have no effect. *)
(***************************************************************************)
EXTENDS Integers, Sequences, FiniteSets, TLC

VARIABLES
    pc,          \* "new" before `new ReliableConnection(config)`, then "threw" or "ok"
    config,      \* the constructor's argument
    maxAttempts, \* var maxAttempts (index.js:66); 0 while unassigned
    delays,      \* var delays (index.js:67); << >> while unassigned
    timers,      \* pending setTimeout callbacks of reconnect, in the order they were set
    inflight,    \* connector promises config.connect() returned and that have not settled
    queue,       \* pending setTimeout callbacks of notifyStatus, in the order they were set
    delivered,   \* what the onStatus callback has been called with, in order
    trace,       \* what happened, in order: method calls, timers, connector calls, notifyStatus calls
    unhandled,   \* promises returned by reconnect() that rejected with no handler attached
    uncaught     \* exceptions thrown out of a timer callback

vars == <<pc, config, maxAttempts, delays, timers, inflight, queue, delivered,
          trace, unhandled, uncaught>>

-----------------------------------------------------------------------------
(* Bounds of the model *)

\* the caller makes at most this many start()/stop()/disconnect() calls
MaxCalls == 3
\* the longest delay schedule the delay-selection check draws
MaxLen == 3
\* the largest attempt index reconnect is called with directly in that check
MaxIdx == 4
\* the longest `delays` array the validation check passes to the constructor
MaxArr == 2

\* delay values the delay-selection check builds schedules from
DelayValues == {0, 100, 1000}
\* what the connector can resolve with and reject with
Connections == {"c1"}
Errors == {"e1", "e2"}

-----------------------------------------------------------------------------
(* JavaScript values *)

Undef == [t |-> "undefined", v |-> 0]
NaN == [t |-> "NaN", v |-> 0]
Num(n) == [t |-> "number", v |-> n]

\* a < n for a number n: undefined converts to NaN, and NaN < n is false
JsLess(a, n) == a.t = "number" /\ a.v < n

\* the value of ++a
JsInc(a) == IF a.t = "number" THEN Num(a.v + 1) ELSE NaN

\* ReliableConnection.defaults
DefaultAttempts == 10
DefaultDelays == <<100, 1000, 5000>>

\* ReliableConnection.status
Statuses == {"idle", "connected", "disconnected", "connecting", "failed", "stopped", "error"}

-----------------------------------------------------------------------------
(* Configuration *)

\* the values a caller can pass as config; onStatus/connect say whether the
\* property of that name is a function, throws whether the onStatus function
\* throws when it is called
Cfg(kind, truthy, onStatus, connect) ==
    [kind |-> kind, truthy |-> truthy, onStatus |-> onStatus, connect |-> connect,
     throws |-> FALSE]

Configs ==
    {Cfg("undefined", FALSE, FALSE, FALSE), Cfg("null", FALSE, FALSE, FALSE),
     Cfg("function", TRUE, FALSE, FALSE), Cfg("array", TRUE, FALSE, FALSE)}
    \cup {Cfg(k, b, FALSE, FALSE) : k \in {"number", "string", "boolean"}, b \in BOOLEAN}
    \cup {Cfg("object", TRUE, s, c) : s \in BOOLEAN, c \in BOOLEAN}
    \cup {[Cfg("object", TRUE, TRUE, c) EXCEPT !.throws = TRUE] : c \in BOOLEAN}

\* typeof config
TypeOf(c) == IF c.kind \in {"null", "array", "object"} THEN "object" ELSE c.kind

\* mutant: the `!config` test is missing, so null (typeof "object") passes
ValidConfigNoNullTest(c) == TypeOf(c) = "object"

\* the negation of `!config || typeof config !== 'object'`
ValidConfig(c) == ~(~c.truthy \/ TypeOf(c) # "object")

-----------------------------------------------------------------------------
(* Notifications *)

\* the data argument of a notification; "undefined" / Undef for a property the
\* object does not have, defined = FALSE when data itself is undefined
NoData == [defined |-> FALSE, connection |-> "undefined", error |-> "undefined",
           success |-> Undef, attempts |-> Undef, count |-> Undef,
           terminal |-> "undefined"]
ConnectedData(obj) == [NoData EXCEPT !.defined = TRUE, !.connection = obj]
ErrorData(err) == [NoData EXCEPT !.defined = TRUE, !.error = err]

Ev(e, a, n) == [e |-> e, a |-> a, n |-> n]

\* notifyStatus(status, data): the callback is deferred with setTimeout when
\* config.onStatus is a function
notifyStatus(c, q, status, data) ==
    IF c.onStatus THEN Append(q, [status |-> status, data |-> data]) ELSE q

-----------------------------------------------------------------------------
(* reconnect *)

\* mutant: past the end of the schedule the first delay is used again
ResolveDelayWrap(ds, attempt) ==
    IF JsLess(attempt, Len(ds)) THEN ds[attempt.v + 1] ELSE ds[1]

\* var delay = attempt < delays.length ? delays[attempt] : delays[delays.length - 1]
ResolveDelay(ds, attempt) ==
    IF JsLess(attempt, Len(ds)) THEN ds[attempt.v + 1] ELSE ds[Len(ds)]

\* number of timers reconnect has set so far
TimersSet(tr) == Cardinality({i \in DOMAIN tr : tr[i].e = "timer"})

\* the timer reconnect(attempt) sets: `after` is the number of notifyStatus
\* timers set before it
NewTimer(tr, q, attempt) ==
    [id |-> TimersSet(tr) + 1, attempt |-> attempt,
     delay |-> ResolveDelay(delays, attempt),
     after |-> Len(delivered) + Len(q)]

RemoveAt(s, k) == [i \in 1..(Len(s) - 1) |-> IF i < k THEN s[i] ELSE s[i + 1]]

Calls(tr) == Cardinality({i \in DOMAIN tr : tr[i].e = "call"})

-----------------------------------------------------------------------------
(* The program *)

Init ==
    /\ pc = "new"
    /\ config = Cfg("undefined", FALSE, FALSE, FALSE)
    /\ maxAttempts = 0
    /\ delays = << >>
    /\ timers = << >>
    /\ inflight = << >>
    /\ queue = << >>
    /\ delivered = << >>
    /\ trace = << >>
    /\ unhandled = 0
    /\ uncaught = 0

\* mutant: the constructor does not notify idle
ConstructNoIdle ==
    /\ pc = "new"
    /\ \E c \in Configs :
        /\ config' = c
        /\ IF ~ValidConfig(c)
           THEN /\ pc' = "threw"
                /\ UNCHANGED <<maxAttempts, delays>>
           ELSE /\ pc' = "ok"
                /\ maxAttempts' = DefaultAttempts
                /\ delays' = DefaultDelays
    /\ UNCHANGED <<timers, inflight, queue, delivered, trace, unhandled, uncaught>>

\* new ReliableConnection(c)
Construct ==
    /\ pc = "new"
    /\ \E c \in Configs :
        /\ config' = c
        /\ IF ~ValidConfig(c)
           THEN /\ pc' = "threw"
                /\ UNCHANGED <<maxAttempts, delays, queue, trace>>
           ELSE /\ pc' = "ok"
                /\ maxAttempts' = DefaultAttempts
                /\ delays' = DefaultDelays
                /\ queue' = notifyStatus(c, queue, "idle", NoData)
                /\ trace' = Append(trace, Ev("notify", "idle", 0))
    /\ UNCHANGED <<timers, inflight, delivered, unhandled, uncaught>>

CanCall == pc = "ok" /\ Calls(trace) < MaxCalls

\* mutant: start() begins a session whatever the state is
StartAlways ==
    /\ CanCall
    /\ LET tr == Append(trace, Ev("call", "start", 0)) IN
        /\ timers' = Append(timers, NewTimer(tr, queue, Num(0)))
        /\ trace' = Append(tr, Ev("timer", "", TimersSet(tr) + 1))
    /\ UNCHANGED <<pc, config, maxAttempts, delays, inflight, queue, delivered,
                   unhandled, uncaught>>

\* this.start
Start ==
    /\ CanCall
    /\ trace' = Append(trace, Ev("call", "start", 0))
    /\ UNCHANGED <<pc, config, maxAttempts, delays, timers, inflight, queue,
                   delivered, unhandled, uncaught>>

\* mutant: stop() calls the observer itself instead of deferring the call
StopSync ==
    /\ CanCall
    /\ delivered' = notifyStatus(config, delivered, "stopped", NoData)
    /\ trace' = trace \o <<Ev("call", "stop", 0), Ev("notify", "stopped", 0)>>
    /\ UNCHANGED <<pc, config, maxAttempts, delays, timers, inflight, queue,
                   unhandled, uncaught>>

\* this.stop
Stop ==
    /\ CanCall
    /\ queue' = notifyStatus(config, queue, "stopped", NoData)
    /\ trace' = trace \o <<Ev("call", "stop", 0), Ev("notify", "stopped", 0)>>
    /\ UNCHANGED <<pc, config, maxAttempts, delays, timers, inflight, delivered,
                   unhandled, uncaught>>

\* mutant: disconnect() makes the first connector call itself, without a timer
DisconnectImmediate ==
    /\ CanCall
    /\ config.connect
    /\ LET tr == Append(trace, Ev("call", "disconnect", 0)) IN
        /\ inflight' = Append(inflight, [id |-> TimersSet(tr) + 1, attempt |-> Undef])
        /\ trace' = Append(tr, Ev("invoke", "", TimersSet(tr) + 1))
    /\ UNCHANGED <<pc, config, maxAttempts, delays, timers, queue, delivered,
                   unhandled, uncaught>>

\* this.disconnect: reconnect() with no argument; the promise is dropped
Disconnect ==
    /\ CanCall
    /\ LET tr == Append(trace, Ev("call", "disconnect", 0)) IN
        /\ timers' = Append(timers, NewTimer(tr, queue, Undef))
        /\ trace' = Append(tr, Ev("timer", "", TimersSet(tr) + 1))
    /\ UNCHANGED <<pc, config, maxAttempts, delays, inflight, queue, delivered,
                   unhandled, uncaught>>

\* the event loop runs timers in the order of their expiry, and timers of equal
\* expiry in the order they were set
TimerDue(k) ==
    /\ timers[k].after <= Len(delivered)
    /\ \A j \in 1..(k - 1) : timers[j].delay > timers[k].delay

\* the setTimeout callback of reconnect: config.connect()
FireTimer ==
    /\ \E k \in DOMAIN timers :
        /\ TimerDue(k)
        /\ timers' = RemoveAt(timers, k)
        /\ IF config.connect
           THEN /\ inflight' = Append(inflight, [id |-> timers[k].id,
                                                 attempt |-> timers[k].attempt])
                /\ trace' = Append(trace, Ev("invoke", "", timers[k].id))
                /\ UNCHANGED uncaught
           ELSE \* TypeError: config.connect is not a function
                /\ uncaught' = uncaught + 1
                /\ trace' = Append(trace, Ev("throw", "", timers[k].id))
                /\ UNCHANGED inflight
    /\ UNCHANGED <<pc, config, maxAttempts, delays, queue, delivered, unhandled>>

\* the .then reaction of reconnect
ConnectResolve ==
    /\ \E k \in DOMAIN inflight, obj \in Connections :
        /\ inflight' = RemoveAt(inflight, k)
        /\ queue' = notifyStatus(config, queue, "connected", ConnectedData(obj))
        /\ trace' = trace \o <<Ev("settle", "ok", inflight[k].id),
                               Ev("notify", "connected", inflight[k].id)>>
    /\ UNCHANGED <<pc, config, maxAttempts, delays, timers, delivered, unhandled,
                   uncaught>>

\* mutant: the error is notified only when another attempt follows
ConnectRejectQuiet ==
    /\ \E k \in DOMAIN inflight, err \in Errors :
        LET attempt == JsInc(inflight[k].attempt)
            tr == trace \o <<Ev("settle", "err", inflight[k].id),
                             Ev("reason", err, inflight[k].id)>>
            trn == Append(tr, Ev("notify", "error", inflight[k].id))
            q == notifyStatus(config, queue, "error", ErrorData(err))
        IN  /\ inflight' = RemoveAt(inflight, k)
            /\ IF JsLess(attempt, maxAttempts)
               THEN /\ queue' = q
                    /\ timers' = Append(timers, NewTimer(trn, q, attempt))
                    /\ trace' = Append(trn, Ev("timer", "", TimersSet(trn) + 1))
                    /\ UNCHANGED unhandled
               ELSE /\ unhandled' = unhandled + 1
                    /\ trace' = tr
                    /\ UNCHANGED <<timers, queue>>
    /\ UNCHANGED <<pc, config, maxAttempts, delays, delivered, uncaught>>

\* the .catch reaction of reconnect
ConnectReject ==
    /\ \E k \in DOMAIN inflight, err \in Errors :
        LET attempt == JsInc(inflight[k].attempt)
            q == notifyStatus(config, queue, "error", ErrorData(err))
            tr == trace \o <<Ev("settle", "err", inflight[k].id),
                             Ev("reason", err, inflight[k].id),
                             Ev("notify", "error", inflight[k].id)>>
        IN  /\ inflight' = RemoveAt(inflight, k)
            /\ queue' = q
            /\ IF JsLess(attempt, maxAttempts)
               THEN /\ timers' = Append(timers, NewTimer(tr, q, attempt))
                    /\ trace' = Append(tr, Ev("timer", "", TimersSet(tr) + 1))
                    /\ UNCHANGED unhandled
               ELSE \* reject(error) reaches the promise disconnect() dropped
                    /\ unhandled' = unhandled + 1
                    /\ trace' = tr
                    /\ UNCHANGED timers
    /\ UNCHANGED <<pc, config, maxAttempts, delays, delivered, uncaught>>

\* mutant: the callback set last runs first
DeliverLast ==
    /\ queue # << >>
    /\ delivered' = Append(delivered, queue[Len(queue)])
    /\ queue' = SubSeq(queue, 1, Len(queue) - 1)
    /\ uncaught' = IF config.throws THEN uncaught + 1 ELSE uncaught
    /\ UNCHANGED <<pc, config, maxAttempts, delays, timers, inflight, trace,
                   unhandled>>

\* the setTimeout callback of notifyStatus: cb.call(self, status, data); a
\* reconnect timer of delay 0 that was set earlier runs first. What the
\* callback throws leaves the timer callback uncaught
Deliver ==
    /\ queue # << >>
    /\ \A k \in DOMAIN timers :
        ~(timers[k].delay = 0 /\ timers[k].after <= Len(delivered))
    /\ delivered' = Append(delivered, Head(queue))
    /\ queue' = Tail(queue)
    /\ uncaught' = IF config.throws THEN uncaught + 1 ELSE uncaught
    /\ UNCHANGED <<pc, config, maxAttempts, delays, timers, inflight, trace,
                   unhandled>>

Next ==
    \/ Construct
    \/ Start
    \/ Stop
    \/ Disconnect
    \/ FireTimer
    \/ ConnectResolve
    \/ ConnectReject
    \/ Deliver

Spec == Init /\ [][Next]_vars

\* the scheduling of the event loop: a due timer runs, a connector promise
\* settles, a deferred callback runs
FairSpec ==
    /\ Spec
    /\ WF_vars(FireTimer)
    /\ WF_vars(ConnectResolve \/ ConnectReject)
    /\ WF_vars(Deliver)

-----------------------------------------------------------------------------
(* reconnect(i) called directly, for the delay schedules of Schedules *)

Schedules == UNION {[1..n -> DelayValues] : n \in 1..MaxLen}

\* a constructed object with a connector, with or without an observer, its
\* schedule drawn from Schedules; the initial idle has been delivered
InitDelay ==
    /\ pc = "ok"
    /\ config \in {Cfg("object", TRUE, s, TRUE) : s \in BOOLEAN}
    /\ maxAttempts = DefaultAttempts
    /\ delays \in Schedules
    /\ timers = << >>
    /\ inflight = << >>
    /\ queue = << >>
    /\ delivered = notifyStatus(config, << >>, "idle", NoData)
    /\ trace = << >>
    /\ unhandled = 0
    /\ uncaught = 0

\* reconnect(i)
CallReconnect ==
    /\ trace = << >>
    /\ \E i \in 0..MaxIdx :
        /\ timers' = Append(timers, NewTimer(trace, queue, Num(i)))
        /\ trace' = Append(trace, Ev("timer", "", 1))
    /\ UNCHANGED <<pc, config, maxAttempts, delays, inflight, queue, delivered,
                   unhandled, uncaught>>

NextDelay ==
    \/ CallReconnect
    \/ FireTimer
    \/ ConnectResolve
    \/ ConnectReject
    \/ Deliver

SpecDelay == InitDelay /\ [][NextDelay]_vars

-----------------------------------------------------------------------------
(* What the caller, the connector and the observer see *)

Min(a, b) == IF a < b THEN a ELSE b

Count(e, a) == Cardinality({i \in DOMAIN trace : trace[i].e = e /\ trace[i].a = a})

IsCall(i, op) == trace[i].e = "call" /\ trace[i].a = op
IsNotify(i, st) == trace[i].e = "notify" /\ trace[i].a = st

\* nothing is pending: no timer, no connector call, no deferred callback
Quiescent == timers = << >> /\ inflight = << >> /\ queue = << >>

\* exactly one session was begun and stop() was never called
OneSession ==
    /\ Count("call", "start") + Count("call", "disconnect") = 1
    /\ Count("call", "stop") = 0

\* a backoff timer or a connector call is outstanding
Connecting == timers # << >> \/ inflight # << >>

\* the last notifyStatus call was notifyStatus(connected)
Connected ==
    \E i \in DOMAIN trace :
        /\ IsNotify(i, "connected")
        /\ \A j \in (i + 1)..Len(trace) : trace[j].e # "notify"

\* what the observer received after the initial idle: status and data.terminal
Observed ==
    [i \in 1..(Len(delivered) - 1) |->
        <<delivered[i + 1].status, delivered[i + 1].data.terminal>>]

\* this step is a call of op: the call is the next entry of the trace
CallStep(op) ==
    /\ Len(trace') > Len(trace)
    /\ trace'[Len(trace) + 1] = Ev("call", op, 0)

Last(s) == s[Len(s)]

-----------------------------------------------------------------------------
(* Claims *)

\* a configuration that is missing or is not an object
NotAnObject(c) == c.kind \notin {"object", "array"}

\* C1: constructing with no configuration or with a non-object configuration
\* throws, and nothing is enqueued or delivered for the failed construction
C1_InvalidConfigThrows ==
    /\ (pc # "new" /\ NotAnObject(config)) => pc = "threw"
    /\ pc = "threw" =>
        /\ queue = << >>
        /\ delivered = << >>
        /\ trace = << >>
        /\ timers = << >>

\* a truthy non-object configuration was refused
C1_Witness == pc = "threw" /\ config.kind = "string" /\ config.truthy

\* C2: the delay reconnect(i) waits is S[min(i, len(S)-1)] (0-based), for every
\* schedule S and every numeric attempt index i
C2_DelayIsScheduleEntry ==
    \A k \in DOMAIN timers :
        timers[k].attempt.t = "number" =>
            timers[k].delay = delays[Min(timers[k].attempt.v, Len(delays) - 1) + 1]

\* an attempt past the end of a schedule whose last entry differs from the
\* others waits the last entry
C2_Witness ==
    \E k \in DOMAIN timers :
        /\ timers[k].attempt.t = "number"
        /\ timers[k].attempt.v > Len(delays)
        /\ Len(delays) >= 2
        /\ \A j \in 1..(Len(delays) - 1) : delays[j] # delays[Len(delays)]
        /\ timers[k].delay = delays[Len(delays)]

\* what the observer is to receive after the initial idle in a session of n
\* failed attempts that exhausts the budget
ExpectedFailed(n) ==
    [i \in 1..(n + 2) |->
        IF i < n THEN <<"error", "false">>
        ELSE IF i = n THEN <<"error", "true">>
        ELSE IF i = n + 1 THEN <<"failed", "undefined">>
        ELSE <<"idle", "undefined">>]

\* C3: when the connector fails on every call, it is invoked maxAttempts times
\* and the observer receives maxAttempts-1 error(terminal:false), one
\* error(terminal:true), failed, idle
C3_ExhaustedBudgetSequence ==
    (/\ Quiescent
     /\ OneSession
     /\ config.onStatus
     /\ Count("settle", "err") >= 1
     /\ Count("settle", "ok") = 0)
    => /\ Count("invoke", "") = maxAttempts
       /\ Observed = ExpectedFailed(maxAttempts)

\* what the observer is to receive after the initial idle in a session that
\* fails k times and then connects
ExpectedConnected(k) ==
    [i \in 1..(k + 1) |-> IF i <= k THEN "error" ELSE "connected"]

\* C4: when the connector fails k times and then succeeds, the observer
\* receives k error notifications, then connected with attempts = k+1
C4_ConnectedCarriesAttempts ==
    (/\ Quiescent
     /\ OneSession
     /\ config.onStatus
     /\ Count("settle", "ok") = 1
     /\ Count("invoke", "") = Count("settle", "err") + 1)
    => LET k == Count("settle", "err") IN
        /\ [i \in 1..(Len(delivered) - 1) |-> delivered[i + 1].status]
              = ExpectedConnected(k)
        /\ Last(delivered).data.attempts = Num(k + 1)

\* C5: a backoff timer that is pending when stop() is called never invokes the
\* connector, and no error, connecting or connected notification comes of it
C5_StopCancelsPendingTimer ==
    \A h, i, j \in DOMAIN trace :
        (/\ h < i /\ i < j
         /\ trace[h].e = "timer"
         /\ IsCall(i, "stop")
         /\ trace[j].n = trace[h].n
         /\ \A g \in (h + 1)..(i - 1) : ~(trace[g].e \in {"invoke", "throw"}
                                          /\ trace[g].n = trace[h].n))
        => /\ trace[j].e # "invoke"
           /\ ~(trace[j].e = "notify" /\ trace[j].a \in {"error", "connecting", "connected"})

\* C6: disconnect() while connected begins a session at attempt 0, whose first
\* delay is the first entry of the schedule
C6_DisconnectRestartsSchedule ==
    [][(CallStep("disconnect") /\ Connected) =>
          /\ Len(timers') = Len(timers) + 1
          /\ timers'[Len(timers')].delay = delays[1]
          /\ timers'[Len(timers')].attempt = Num(0)]_vars

\* the connected notifications among the first i the observer received, since
\* the last stopped among them
SuccessesUpTo(i) ==
    Cardinality({j \in 1..i :
        /\ delivered[j].status = "connected"
        /\ \A g \in j..i : delivered[g].status # "stopped"})

\* C7: the success count of each connected payload is the number of successful
\* connections since the object was created or stop() was last called
C7_SuccessCountInPayload ==
    \A i \in DOMAIN delivered :
        delivered[i].status = "connected" =>
            delivered[i].data.success = Num(SuccessesUpTo(i))

\* C8: start() while connecting or connected changes nothing: no notification,
\* no timer, no connector call, the attempt index of the session untouched
C8_StartWhileActiveIsNoOp ==
    [][(CallStep("start") /\ (Connecting \/ Connected)) =>
          UNCHANGED <<timers, inflight, queue, delivered, maxAttempts, delays,
                      unhandled, uncaught>>]_vars

\* start() was called while a timer was pending, and again right after the
\* connected notification
C8_Witness ==
    \E i, j \in DOMAIN trace :
        /\ i + 1 < j /\ j < Len(trace)
        /\ trace[i].e = "timer"
        /\ IsCall(i + 1, "start")
        /\ IsNotify(j, "connected")
        /\ IsCall(j + 1, "start")

\* start() has just been called, as the first method call, on a controller
\* that has a connector: nothing is outstanding and it is not connected
StartedIdle ==
    /\ config.connect
    /\ Calls(trace) = 1
    /\ Last(trace) = Ev("call", "start", 0)
    /\ ~Connecting
    /\ ~Connected

\* after the last start(): a connected or failed notification, or a stop()
OutcomeAfterStart ==
    \E i, j \in DOMAIN trace :
        /\ i < j
        /\ IsCall(i, "start")
        /\ \A g \in (i + 1)..Len(trace) : ~IsCall(g, "start")
        /\ IsNotify(j, "connected") \/ IsNotify(j, "failed") \/ IsCall(j, "stop")

\* C9: after start() on an idle controller, with no stop() following, the
\* controller reaches connected or failed: once no timer, connector call or
\* deferred callback is left to run, one of the two has been notified
C9_StartReachesOutcome == (StartedIdle /\ Quiescent) => OutcomeAfterStart

\* the same as a liveness property, for FairSpec
StartLeadsToOutcome == StartedIdle ~> OutcomeAfterStart

\* C10: every stopped notification is immediately followed by idle, so stopped
\* is never the last notification once all have been delivered
C10_StoppedThenIdle ==
    LET all == delivered \o queue IN
    \A i \in DOMAIN all :
        all[i].status = "stopped" =>
            /\ i < Len(all)
            /\ all[i + 1].status = "idle"

\* nothing is outstanding and the controller is not connected
Idle == ~Connecting /\ ~Connected

\* C11: disconnect() while idle is a no-op: no timer is set, no connector call
\* is made, no notification is enqueued
C11_DisconnectWhileIdleIsNoOp ==
    [][(CallStep("disconnect") /\ Idle) =>
          UNCHANGED <<timers, inflight, queue, delivered>>]_vars

\* C12: no connector failure is left as a rejected promise that nobody handles
\* or as an exception, whatever the calls and the connector outcomes are
C12_NoUnhandledRejection ==
    Count("settle", "err") >= 1 => unhandled = 0

\* C14: at most one attempt is outstanding: the pending backoff timers and the
\* connector calls in flight number at most one in total
C14_OneAttemptOutstanding == Len(timers) + Len(inflight) <= 1

\* C15: the result of a connector call that was in flight when stop() was
\* called is dropped: no connected or error notification comes of it and no
\* further attempt is scheduled
C15_ResultAfterStopDropped ==
    \A h, i, j \in DOMAIN trace :
        (/\ h < i /\ i < j
         /\ trace[h].e = "invoke"
         /\ IsCall(i, "stop") \/ IsCall(i, "disconnect")
         /\ trace[j].n = trace[h].n)
        => ~(trace[j].e = "notify" /\ trace[j].a \in {"connected", "error"})

\* the notifyStatus calls, the rejection reasons and the observer's
\* notifications (received or still deferred), each in order
IsNotifyEv(x) == x.e = "notify"
IsReasonEv(x) == x.e = "reason"
IsErrorNote(x) == x.status = "error"
NotifyCalls == SelectSeq(trace, IsNotifyEv)
Reasons == SelectSeq(trace, IsReasonEv)
Notes == delivered \o queue

\* C16: the observer receives the notifications in the order of the
\* notifyStatus calls, none lost and none twice
C16_DeliveredInCallOrder ==
    config.onStatus =>
        /\ Len(Notes) = Len(NotifyCalls)
        /\ \A i \in DOMAIN Notes : Notes[i].status = NotifyCalls[i].a

\* two different notifications are deferred at once, after a first one was
\* received
C16_Witness ==
    /\ Len(delivered) >= 1
    /\ Len(queue) >= 2
    /\ queue[1].status # queue[2].status

\* C17: the observer is called in a task of its own: never within the
\* constructor, a method or a timer or connector handler, and what it throws
\* changes no timer, connector call or pending notification
C17_ObserverRunsDeferred ==
    [][delivered' # delivered =>
          /\ queue # << >>
          /\ delivered' = Append(delivered, Head(queue))
          /\ queue' = Tail(queue)
          /\ UNCHANGED <<pc, maxAttempts, delays, timers, inflight, trace,
                         unhandled>>]_vars

\* an observer that throws has been called twice, and the connector call of
\* the session is in flight all the same
C17_Witness ==
    /\ config.throws
    /\ Len(delivered) >= 2
    /\ uncaught >= 2
    /\ inflight # << >>
    /\ Count("call", "stop") >= 1

\* C18: every failed connector call is notified as one error that carries the
\* call's rejection reason, before the retry timer is set or the promise is
\* rejected; giving up is notified at most once for each session
C18_OneErrorPerFailure ==
    /\ Count("notify", "error") = Count("settle", "err")
    /\ \A j \in DOMAIN trace :
        (trace[j].e = "settle" /\ trace[j].a = "err") =>
            /\ j + 2 <= Len(trace)
            /\ trace[j + 1].e = "reason"
            /\ trace[j + 2] = Ev("notify", "error", trace[j].n)
    /\ config.onStatus =>
        LET errs == SelectSeq(Notes, IsErrorNote) IN
        /\ Len(errs) = Len(Reasons)
        /\ \A i \in DOMAIN errs : errs[i].data.error = Reasons[i].a
    /\ Count("notify", "failed") <= unhandled

\* a call that failed was notified and retried, and a later call of the chain
\* failed with another reason and was notified as the last of the budget
C18_Witness ==
    /\ config.onStatus
    /\ unhandled = 1
    /\ queue = << >>
    /\ Len(Reasons) >= 2
    /\ Reasons[1].a # Reasons[Len(Reasons)].a
    /\ Last(delivered).data.error = Reasons[Len(Reasons)].a

\* C19 as claimed: the first attempt of a session is made without a wait, so
\* every pending backoff timer is for a second or later attempt
C19_FirstAttemptImmediate ==
    \A k \in DOMAIN timers :
        timers[k].attempt.t = "number" /\ timers[k].attempt.v >= 1

\* C19 as amended: every attempt, the first of a session included, waits a
\* delay of the schedule: the connector is only called from a timer reconnect
\* set, and every such timer waits an entry of the schedule
C19_EveryAttemptWaits ==
    /\ \A j \in DOMAIN trace :
        trace[j].e \in {"invoke", "throw"} =>
            \E h \in 1..(j - 1) : trace[h] = Ev("timer", "", trace[j].n)
    /\ \A k \in DOMAIN timers :
        \E i \in DOMAIN delays : timers[k].delay = delays[i]
    /\ \A j \in DOMAIN trace :
        (j < Len(trace) /\ IsCall(j, "disconnect")) => trace[j + 1].e = "timer"

\* the connector was called for the first attempt of a session, after the timer
\* disconnect() set
C19_Witness ==
    \E h, j \in DOMAIN trace :
        /\ 1 < h /\ h < j
        /\ IsCall(h - 1, "disconnect")
        /\ trace[h].e = "timer"
        /\ trace[j] = Ev("invoke", "", trace[h].n)

\* C20: after construction and before any call the controller is idle and the
\* first notification is one idle with undefined data; an idle that has data
\* follows stopped, failed or disconnected
C20_FirstNotificationIsIdle ==
    (pc = "ok" /\ config.onStatus) =>
        /\ Notes # << >>
        /\ Notes[1] = [status |-> "idle", data |-> NoData]
        /\ Calls(trace) = 0 => (Len(Notes) = 1 /\ Idle)
        /\ \A i \in DOMAIN Notes :
            (Notes[i].status = "idle" /\ Notes[i].data.defined) =>
                /\ i > 1
                /\ Notes[i - 1].status \in {"stopped", "failed", "disconnected"}

\* the observer has received the initial idle and no method has been called
C20_Witness ==
    /\ Calls(trace) = 0
    /\ queue = << >>
    /\ delivered = <<[status |-> "idle", data |-> NoData]>>

-----------------------------------------------------------------------------
(* The validation of config.delays: the second revision of lib/index.js     *)
(* (lines 266-294) and the EventEmitter revision (its constructor)          *)

\* the values of a `delays` entry: integers, n + 0.5 ("frac"), the strings
\* "n" ("numstr"), "npx" ("prefixstr"), "abc" ("word") and "" ("empty"), and
\* Infinity, NaN, null, undefined, true
In(k, n) == [k |-> k, n |-> n]
DelayScalars ==
    {In("int", n) : n \in {-1, 0, 250}}
    \cup {In("frac", 1), In("numstr", -1), In("numstr", 250), In("prefixstr", 3)}
    \cup {In(k, 0) : k \in {"word", "empty", "Infinity", "NaN", "null",
                            "undefined", "true"}}

\* config.delays: absent, an array, or another value
DelayInputs ==
    {[form |-> "absent", items |-> << >>]}
    \cup {[form |-> "scalar", items |-> <<v>>] : v \in DelayScalars}
    \cup UNION {{[form |-> "array", items |-> a] : a \in [1..n -> DelayScalars]}
                : n \in 0..MaxArr}

DelayConfigs ==
    {[kind |-> "object", truthy |-> TRUE, onStatus |-> FALSE, connect |-> FALSE,
      throws |-> FALSE, delays |-> d] : d \in DelayInputs}

\* ReliableConnection.defaults of these revisions
Defaults2Delays == <<100, 1000, 5000, 30000>>
EmitterAttempts == 100

\* parseInt(value): the leading integer of the value's string, or NaN
ParseInt(v) ==
    IF v.k \in {"int", "frac", "numstr", "prefixstr"} THEN Num(v.n) ELSE NaN

\* value >= 0, the value converted to a number: null and "" to 0, true to 1,
\* undefined and the non-numeric strings to NaN
GeZero(v) ==
    \/ v.k \in {"int", "frac", "numstr"} /\ v.n >= 0
    \/ v.k \in {"Infinity", "null", "empty", "true"}

\* isFinite(d) && d >= 0, for d a result of parseInt
FiniteNonNeg(d) == d.t = "number" /\ d.v >= 0

\* the positions whose entry the map callback throws at
Rejected(items) == {i \in DOMAIN items : ~FiniteNonNeg(ParseInt(items[i]))}
FirstOf(S) == CHOOSE i \in S : \A j \in S : i <= j

\* the delays the constructor computes from config.delays: ok with the
\* schedule, or the error it throws; hasDefaults says whether the name
\* `defaults` is bound where the constructor reads defaults.delays
ValidateDelays(d, hasDefaults) ==
    LET dflt == [i \in DOMAIN Defaults2Delays |-> Num(Defaults2Delays[i])] IN
    IF d.form = "absent" THEN [ok |-> TRUE, delays |-> dflt, err |-> "", idx |-> 0]
    ELSE IF d.form = "array"
    THEN IF Rejected(d.items) # {}
         THEN [ok |-> FALSE, delays |-> << >>, err |-> "TypeError",
               idx |-> FirstOf(Rejected(d.items)) - 1]
         ELSE [ok |-> TRUE, delays |-> [i \in DOMAIN d.items |-> ParseInt(d.items[i])],
               err |-> "", idx |-> 0]
    ELSE IF GeZero(d.items[1])
    THEN [ok |-> TRUE, delays |-> <<ParseInt(d.items[1])>>, err |-> "", idx |-> 0]
    ELSE IF hasDefaults
    THEN [ok |-> TRUE, delays |-> dflt, err |-> "", idx |-> 0]
    ELSE [ok |-> FALSE, delays |-> << >>, err |-> "ReferenceError", idx |-> 0]

InitConfig ==
    /\ pc = "new"
    /\ config \in DelayConfigs
    /\ maxAttempts = 0
    /\ delays = << >>
    /\ timers = << >>
    /\ inflight = << >>
    /\ queue = << >>
    /\ delivered = << >>
    /\ trace = << >>
    /\ unhandled = 0
    /\ uncaught = 0

Constructed(rev, attempts, r) ==
    /\ pc' = IF r.ok THEN "ok" ELSE "threw"
    /\ maxAttempts' = IF r.ok THEN attempts ELSE maxAttempts
    /\ delays' = r.delays
    /\ trace' = <<Ev("new", rev, 0)>> \o (IF r.ok THEN << >> ELSE <<Ev("throw", r.err, r.idx)>>)
    /\ UNCHANGED <<config, timers, inflight, queue, delivered, unhandled, uncaught>>

\* new ReliableConnection(config), second revision of lib/index.js: `'delays'
\* in config` guards the validation, and `defaults` is not a name in scope
ConstructIndex2 ==
    /\ pc = "new"
    /\ Constructed("index", DefaultAttempts, ValidateDelays(config.delays, FALSE))

\* new ReliableConnection(options), the EventEmitter revision: an absent
\* options.delays is undefined, which is not >= 0
ConstructEmitter ==
    /\ pc = "new"
    /\ Constructed("emitter", EmitterAttempts, ValidateDelays(config.delays, TRUE))

NextConfig ==
    \/ ConstructIndex2
    \/ ConstructEmitter

SpecConfig == InitConfig /\ [][NextConfig]_vars

\* a non-negative finite integer, as a number or as its decimal string
NonNegInteger(v) == v.k \in {"int", "numstr"} /\ v.n >= 0

\* C13: construction fails or yields a non-empty schedule of non-negative
\* finite integers; an array with an entry that is not one is rejected with the
\* index of the entry; a non-negative integer becomes a schedule of one entry;
\* an omitted or invalid scalar gives the default schedule
C13_ScheduleValidated ==
    LET d == config.delays IN
    /\ pc = "ok" =>
        /\ delays # << >>
        /\ \A i \in DOMAIN delays : FiniteNonNeg(delays[i])
    /\ (pc # "new" /\ d.form = "array"
            /\ \E i \in DOMAIN d.items : ~NonNegInteger(d.items[i])) =>
        /\ pc = "threw"
        /\ Last(trace).e = "throw"
        /\ ~NonNegInteger(d.items[Last(trace).n + 1])
    /\ (pc # "new" /\ d.form = "scalar" /\ NonNegInteger(d.items[1])) =>
        (pc = "ok" /\ delays = <<Num(d.items[1].n)>>)
    /\ (pc # "new" /\ (d.form = "absent"
                       \/ (d.form = "scalar" /\ ~NonNegInteger(d.items[1])))) =>
        (pc = "ok" /\ delays = [i \in DOMAIN Defaults2Delays |-> Num(Defaults2Delays[i])])

====
